---- MODULE Spec2Model ----
(***************************************************************************)
(* cloudssh: the index lifecycle of src/cloudssh.py.                       *)
(*                                                                         *)
(* IndexProcessor keeps two pieces of persisted state: the TTL file (one   *)
(* pickled datetime) and the whoosh index directory.  should_index is the  *)
(* staleness gate, update_index the gated batch upsert, search the ranked  *)
(* query.  Times are whole seconds; text is a sequence of one-character    *)
(* strings so that join, split, analysis and byte order are computed.      *)
(***************************************************************************)
EXTENDS Integers, Sequences, FiniteSets, TLC

VARIABLES ttl, now, ticks, runs, ttlFile, index, pc, batch, writer, call, prev, results,
          dir, flow, procs

\* the index directory, the main flow around update_index, concurrent should_index calls
extra == <<dir, flow, procs>>

vars == <<ttl, now, ticks, runs, ttlFile, index, pc, batch, writer, call, prev, results, extra>>

(***************************************************************************)
(* Bounds of the model and constants of the program.                       *)
(***************************************************************************)
\* seconds in a day: timedelta.seconds is the sub-day component
Day == 86400
\* search(..., limit=15, ...)
ResultLimit == 15
\* how many times the clock advances in one behaviour
MaxTicks == 3
\* how many runs of the program one behaviour holds
MaxRuns == 2
\* largest corpus the query specification starts from
MaxDocs == 17

\* configured index.ttl values (seconds)
TTLs == {0, 2, Day - 2, Day - 1, Day, 2 * Day + 5}
\* amounts by which the clock advances between steps
Steps == {1, Day - 1}

(***************************************************************************)
(* Text.                                                                   *)
(***************************************************************************)
Min(a, b) == IF a < b THEN a ELSE b

\* str.join(sep, parts)
RECURSIVE Join(_, _)
Join(sep, parts) ==
    IF parts = <<>> THEN <<>>
    ELSE IF Len(parts) = 1 THEN Head(parts)
    ELSE Head(parts) \o sep \o Join(sep, Tail(parts))

\* byte value of a character (utf-8 of the characters used here)
Code(c) ==
    CASE c = " " -> 32 [] c = "-" -> 45 [] c = "." -> 46
      [] c = "0" -> 48 [] c = "1" -> 49 [] c = "2" -> 50 [] c = "3" -> 51
      [] c = "4" -> 52 [] c = "5" -> 53 [] c = "6" -> 54 [] c = "7" -> 55
      [] c = "8" -> 56 [] c = "9" -> 57
      [] c = "D" -> 68 [] c = "W" -> 87
      [] c = "a" -> 97 [] c = "b" -> 98 [] c = "d" -> 100 [] c = "e" -> 101
      [] c = "h" -> 104 [] c = "o" -> 111 [] c = "p" -> 112 [] c = "r" -> 114
      [] c = "v" -> 118 [] c = "w" -> 119

\* LowercaseFilter of StandardAnalyzer
Lower(c) == CASE c = "D" -> "d" [] c = "W" -> "w" [] OTHER -> c

\* \w of the StandardAnalyzer token pattern \w+(\.?\w+)*
IsWordChar(c) == c \notin {" ", "-", "."}

\* KEYWORD field analysis (commas=False, lowercase=False): split on whitespace
RECURSIVE KeywordTokens(_)
KeywordTokens(s) ==
    IF s = <<>> THEN <<>>
    ELSE IF Head(s) = " " THEN KeywordTokens(Tail(s))
    ELSE LET n == IF \E i \in 1..Len(s) : s[i] = " "
                  THEN (CHOOSE i \in 1..Len(s) :
                            s[i] = " " /\ \A j \in 1..(i - 1) : s[j] # " ") - 1
                  ELSE Len(s)
         IN  <<SubSeq(s, 1, n)>> \o KeywordTokens(SubSeq(s, n + 1, Len(s)))

\* length of the longest prefix of s matching (\.?\w+)*, s following a word character
RECURSIVE TokenRest(_)
TokenRest(s) ==
    IF s = <<>> THEN 0
    ELSE IF IsWordChar(Head(s)) THEN 1 + TokenRest(Tail(s))
    ELSE IF Head(s) = "." /\ Len(s) > 1 /\ IsWordChar(s[2]) THEN 2 + TokenRest(SubSeq(s, 3, Len(s)))
    ELSE 0

\* RegexTokenizer of StandardAnalyzer: the successive matches of \w+(\.?\w+)*
RECURSIVE RegexTokens(_)
RegexTokens(s) ==
    IF s = <<>> THEN <<>>
    ELSE IF ~IsWordChar(Head(s)) THEN RegexTokens(Tail(s))
    ELSE LET n == 1 + TokenRest(Tail(s))
         IN  <<SubSeq(s, 1, n)>> \o RegexTokens(SubSeq(s, n + 1, Len(s)))

LowerText(s) == [j \in 1..Len(s) |-> Lower(s[j])]

\* StandardAnalyzer(stoplist=None): regex tokens, lowercased, no stop words
StandardTokens(s) ==
    LET raw == RegexTokens(s)
    IN  [i \in 1..Len(raw) |-> LowerText(raw[i])]

\* number of positions of seq holding x
Count(seq, x) == Cardinality({i \in 1..Len(seq) : seq[i] = x})

\* bytes a < bytes b, as Python compares bytes
RECURSIVE BytesLess(_, _)
BytesLess(a, b) ==
    IF b = <<>> THEN FALSE
    ELSE IF a = <<>> THEN TRUE
    ELSE IF Code(Head(a)) # Code(Head(b)) THEN Code(Head(a)) < Code(Head(b))
    ELSE BytesLess(Tail(a), Tail(b))

(***************************************************************************)
(* Staleness gate: IndexProcessor.should_index.                            *)
(***************************************************************************)
\* content of the TTL file: missing, zero bytes, bytes pickle cannot load, or a datetime
NoFile == [kind |-> "absent", at |-> 0]
EmptyFile == [kind |-> "empty", at |-> 0]
CorruptFile == [kind |-> "corrupt", at |-> 0]
Stamp(t) == [kind |-> "stamp", at |-> t]

\* datetime - datetime: a timedelta normalised to days and 0 <= seconds < 86400
TimeDelta(a, b) == [days |-> (a - b) \div Day, seconds |-> (a - b) % Day]

\* should_index as it would be if line 108 ran on every call
ShouldIndexRestamp(file, t, cfgTtl) ==
    LET f1 == IF file.kind \in {"absent", "empty"} THEN Stamp(t - (cfgTtl + 1)) ELSE file
        delta == TimeDelta(t, f1.at)
    IN  IF f1.kind = "corrupt"
        THEN [raised |-> TRUE, ret |-> FALSE, file |-> f1, read |-> 0]
        ELSE [raised |-> FALSE, ret |-> delta.seconds > cfgTtl, file |-> Stamp(t), read |-> f1.at]

\* should_index as it would be without lines 106-108
ShouldIndexNoPersist(file, t, cfgTtl) ==
    LET f1 == IF file.kind \in {"absent", "empty"} THEN Stamp(t - (cfgTtl + 1)) ELSE file
        delta == TimeDelta(t, f1.at)
    IN  IF f1.kind = "corrupt"
        THEN [raised |-> TRUE, ret |-> FALSE, file |-> f1, read |-> 0]
        ELSE [raised |-> FALSE, ret |-> delta.seconds > cfgTtl, file |-> f1, read |-> f1.at]

\* should_index as it would be with delta.total_seconds() on line 102
ShouldIndexTotalSeconds(file, t, cfgTtl) ==
    LET f1 == IF file.kind \in {"absent", "empty"} THEN Stamp(t - (cfgTtl + 1)) ELSE file
        delta == TimeDelta(t, f1.at)
        should_index == delta.days * Day + delta.seconds > cfgTtl
    IN  IF f1.kind = "corrupt"
        THEN [raised |-> TRUE, ret |-> FALSE, file |-> f1, read |-> 0]
        ELSE [raised |-> FALSE, ret |-> should_index,
              file |-> IF should_index THEN Stamp(t) ELSE f1, read |-> f1.at]

\* should_index at clock t: the decision, the file it leaves, whether pickle.load raised
ShouldIndex(file, t, cfgTtl) ==
    LET f1 == IF file.kind \in {"absent", "empty"} THEN Stamp(t - (cfgTtl + 1)) ELSE file
        raised == f1.kind = "corrupt"
        delta == TimeDelta(t, f1.at)
        should_index == delta.seconds > cfgTtl
    IN  IF raised
        THEN [raised |-> TRUE, ret |-> FALSE, file |-> f1, read |-> 0]
        ELSE [raised |-> FALSE, ret |-> should_index,
              file |-> IF should_index THEN Stamp(t) ELSE f1, read |-> f1.at]

(***************************************************************************)
(* Index store: the whoosh index behind IndexProcessor.update_index.       *)
(***************************************************************************)
NoWriter == [open |-> FALSE, deleted |-> {}, pending |-> <<>>]

\* the keyword arguments of writer.update_document for one ServerInstance
Document(instance, t) ==
    [private_ip_address |-> instance.ip_address,
     name |-> instance.name,
     tags |-> Join(<<" ">>, instance.fields),
     created_at |-> t]

\* the committed document update_document deletes for a unique key: the first
\* live one whose indexed terms hold the key; documents pending in the writer
\* are not searched
FindUnique(idx, deleted, address) ==
    LET live == {i \in 1..Len(idx) :
                    /\ i \notin deleted
                    /\ \E j \in 1..Len(StandardTokens(idx[i].private_ip_address)) :
                          StandardTokens(idx[i].private_ip_address)[j] = address}
    IN  IF live = {} THEN {} ELSE {CHOOSE i \in live : \A j \in live : i <= j}

\* the documents of idx that are not deleted, in order
RECURSIVE Live(_, _, _)
Live(idx, deleted, i) ==
    IF i > Len(idx) THEN <<>>
    ELSE (IF i \in deleted THEN <<>> ELSE <<idx[i]>>) \o Live(idx, deleted, i + 1)

\* commit as it would be if the index were rebuilt from the batch alone
CommitIndexRebuild(idx, w) == w.pending

\* writer.commit: deletions and additions become visible together
CommitIndex(idx, w) == Live(idx, w.deleted, 1) \o w.pending

\* update_document as it would be if each document were committed on its own
UpdateDocumentAutoCommit(idx, w, doc) ==
    [index |-> Live(idx, FindUnique(idx, {}, doc.private_ip_address), 1) \o <<doc>>,
     writer |-> w]

\* writer.update_document: buffered in the writer, the committed index untouched
UpdateDocument(idx, w, doc) ==
    [index |-> idx,
     writer |-> [w EXCEPT !.deleted = @ \cup FindUnique(idx, @, doc.private_ip_address),
                          !.pending = Append(@, doc)]]

\* update_index line 131: the single call of the gate
Gate(file, t, cfgTtl) == [r |-> ShouldIndex(file, t, cfgTtl), calls |-> 1]

\* update_index as it would be without the early return of lines 131-133
GateOutcomeUngated(r) == IF r.raised THEN "idle" ELSE "writer"

\* where update_index goes after the gate: crash, return None, or open the writer
GateOutcome(r) == IF r.raised THEN "idle" ELSE IF r.ret THEN "writer" ELSE "query"

(***************************************************************************)
(* Query engine: IndexProcessor.search.                                    *)
(***************************************************************************)
\* the words of a plain query string (no operators, no field prefixes)
QueryWords(term) == KeywordTokens(term)

\* MultifieldParser(["name", "tags"]): a word matches in either field
TermFreq(doc, word) ==
    Count(StandardTokens(doc.name), LowerText(word)) + Count(KeywordTokens(doc.tags), word)

\* the parsed query: every word must match; no word at all is the null query
Matches(doc, words) ==
    /\ words # <<>>
    /\ \A i \in 1..Len(words) : TermFreq(doc, words[i]) > 0

\* ScoreFacet: the relevance weight, here the summed term frequency
RECURSIVE Score(_, _)
Score(doc, words) ==
    IF words = <<>> THEN 0 ELSE TermFreq(doc, Head(words)) + Score(doc, Tail(words))

\* the sort key as it would be with sortedby=[scores] alone
KeyLessScoreOnly(a, b) ==
    \/ a.score > b.score
    \/ a.score = b.score /\ a.docnum < b.docnum

\* sortedby=[scores, name_field_facet]: higher score first, then name bytes, then docnum
KeyLess(a, b) ==
    \/ a.score > b.score
    \/ /\ a.score = b.score
       /\ \/ BytesLess(a.doc.name, b.doc.name)
          \/ a.doc.name = b.doc.name /\ a.docnum < b.docnum

\* a hit put at its place in the sorted list of hits kept so far
Insert(acc, h) ==
    LET p == Cardinality({i \in 1..Len(acc) : KeyLess(acc[i], h)})
    IN  SubSeq(acc, 1, p) \o <<h>> \o SubSeq(acc, p + 1, Len(acc))

\* the collector as it would be with limit=None
TruncateNone(acc, limit) == acc

\* limit=15: the collector keeps the best `limit` hits
Truncate(acc, limit) == SubSeq(acc, 1, Min(Len(acc), limit))

\* the collector: every live document in docnum order, matched, keyed, kept or dropped
RECURSIVE Collect(_, _, _, _)
Collect(idx, words, i, acc) ==
    IF i > Len(idx) THEN acc
    ELSE IF Matches(idx[i], words)
         THEN Collect(idx, words, i + 1,
                      Truncate(Insert(acc, [docnum |-> i, score |-> Score(idx[i], words),
                                            doc |-> idx[i]]), ResultLimit))
         ELSE Collect(idx, words, i + 1, acc)

\* search(query_search_term) on the committed index
Search(idx, term) == Collect(idx, QueryWords(term), 1, <<>>)

(***************************************************************************)
(* Inputs: the instances lookup hands to update_index, and search terms.   *)
(***************************************************************************)
\* the corpus patterns 0..MaxPattern of the query specification
MaxPattern == 3

DigitChar(d) ==
    CASE d = 0 -> "0" [] d = 1 -> "1" [] d = 2 -> "2" [] d = 3 -> "3" [] d = 4 -> "4"
      [] d = 5 -> "5" [] d = 6 -> "6" [] d = 7 -> "7" [] d = 8 -> "8" [] d = 9 -> "9"

\* str(i)
RECURSIVE Digits(_)
Digits(i) == IF i < 10 THEN <<DigitChar(i)>> ELSE Digits(i \div 10) \o <<DigitChar(i % 10)>>

\* the private address of host i
IP(i) == <<"1", "0", ".", "0", ".", "0", ".">> \o Digits(i)

TagProd == <<"p", "r", "o", "d">>
TagWeb == <<"w", "e", "b">>
TagDb == <<"d", "b">>
TagDev == <<"d", "e", "v">>
NameWeb1 == <<"w", "e", "b", "-", "1">>
NameDb1 == <<"d", "b", "-", "1">>
NameCapWeb == <<"W", "e", "b", "-", "1">>

\* ServerInstance(server_name, server_ip_address, server_fields)
ServerInstance(server_name, server_ip_address, server_fields) ==
    [name |-> server_name, ip_address |-> server_ip_address, fields |-> server_fields]

\* what the providers' lookups can return: one host, the same host relabelled,
\* another host, two instances with one address, nothing
Batches ==
    {<<ServerInstance(NameWeb1, IP(1), <<TagProd, TagWeb>>)>>,
     <<ServerInstance(NameDb1, IP(1), <<TagDev>>)>>,
     <<ServerInstance(NameDb1, IP(2), <<TagProd, TagDb>>)>>,
     <<ServerInstance(NameWeb1, IP(1), <<TagProd, TagWeb>>),
       ServerInstance(NameDb1, IP(1), <<TagDev>>)>>,
     <<>>}

\* search terms: empty, blank, one word, a word in capitals, two words
Queries ==
    {<<>>, <<" ">>, TagProd, TagWeb, TagDb, <<"W", "e", "b">>, TagProd \o <<" ">> \o TagDb}

\* the terms searched for in the runs of the main specification
RunQueries == {TagProd}

NamePool == <<NameWeb1, NameDb1, NameCapWeb, <<>>>>
TagPool == <<<<TagProd, TagWeb>>, <<TagProd, TagDb>>, <<TagDev>>, <<TagProd, TagProd>>>>

\* a committed index of n hosts with distinct addresses, written at time 0
Corpus(n, p) ==
    [i \in 1..n |->
        Document(ServerInstance(NamePool[((i + p) % Len(NamePool)) + 1], IP(i),
                                TagPool[((i * p) % Len(TagPool)) + 1]), 0)]

(***************************************************************************)
(* State machine.                                                          *)
(*   pc       position of the run in progress: idle (none), writer (gate   *)
(*            said due), writing (writer open), query (update_index done)  *)
(*   call     what the latest update_index call did; prev the one before   *)
(*   results  what the latest search returned, the index it read and how   *)
(*            many documents the open writer held then                     *)
(*   dir      the index directory: missing, bare (allocated, no index in   *)
(*            it) or index                                                 *)
(*   flow     the main flow of the run in progress or last ended           *)
(*   procs    the should_index calls of invocations running side by side   *)
(***************************************************************************)
NoCall ==
    [op |-> "none", fileBefore |-> NoFile, at |-> 0, read |-> 0, raised |-> FALSE,
     ret |-> FALSE, gateCalls |-> 0, opened |-> FALSE, written |-> 0, commits |-> 0,
     failed |-> FALSE, indexBefore |-> <<>>]

NoPrev == [failed |-> FALSE, at |-> 0, indexBefore |-> <<>>]

NoResults == [term |-> <<>>, during |-> "none", written |-> 0, view |-> <<>>, hits |-> <<>>]

\* search_term = None (line 43): no term yet
NoTerm == [given |-> FALSE, text |-> <<>>]

\* the main flow before any run
NoFlow ==
    [stage |-> "none", n |-> 0, response |-> <<>>, instances |-> <<>>, lookups |-> 0,
     start |-> [ttlFile |-> NoFile, index |-> <<>>, dir |-> "missing"],
     error |-> "none", finished |-> FALSE, term |-> NoTerm, searched |-> FALSE,
     choices |-> <<>>, selecting |-> FALSE, answer |-> 0, token |-> <<>>, ssh |-> FALSE]

Init ==
    /\ ttl \in TTLs
    /\ now = 0
    /\ ticks = 0
    /\ runs = 0
    /\ ttlFile \in {NoFile, EmptyFile, CorruptFile, Stamp(-1)}
    /\ index = <<>>
    /\ pc = "idle"
    /\ batch = <<>>
    /\ writer = NoWriter
    /\ call = NoCall
    /\ prev = NoPrev
    /\ results = NoResults
    /\ dir = "index"
    /\ flow = NoFlow
    /\ procs = <<>>

\* the clock advances between two runs (a run is over within the second it starts)
Tick(d) ==
    /\ ticks < MaxTicks
    /\ pc = "idle"
    /\ runs < MaxRuns
    /\ now' = now + d
    /\ ticks' = ticks + 1
    /\ UNCHANGED <<ttl, runs, ttlFile, index, pc, batch, writer, call, prev, results, extra>>

\* a run calls update_index(instances): lines 131-133, the gate and its outcome
UpdateIndexGate(instances) ==
    /\ pc = "idle"
    /\ runs < MaxRuns
    /\ runs' = runs + 1
    /\ LET g == Gate(ttlFile, now, ttl)
       IN  /\ ttlFile' = g.r.file
           /\ pc' = GateOutcome(g.r)
           /\ call' = [op |-> "update_index", fileBefore |-> ttlFile, at |-> now,
                       read |-> g.r.read, raised |-> g.r.raised, ret |-> g.r.ret,
                       gateCalls |-> g.calls, opened |-> FALSE, written |-> 0,
                       commits |-> 0, failed |-> FALSE, indexBefore |-> index]
    /\ prev' = [failed |-> call.failed, at |-> call.at, indexBefore |-> call.indexBefore]
    /\ batch' = instances
    /\ results' = NoResults
    /\ UNCHANGED <<ttl, now, ticks, index, writer, extra>>

\* line 135: writer = self.instance_index.writer()
OpenWriter ==
    /\ pc = "writer"
    /\ writer' = [open |-> TRUE, deleted |-> {}, pending |-> <<>>]
    /\ pc' = "writing"
    /\ call' = [call EXCEPT !.opened = TRUE]
    /\ UNCHANGED <<ttl, now, ticks, runs, ttlFile, index, batch, prev, results, extra>>

\* lines 136-143: one turn of the loop
UpdateDocumentStep ==
    /\ pc = "writing"
    /\ call.written < Len(batch)
    /\ LET out == UpdateDocument(index, writer, Document(batch[call.written + 1], now))
       IN  /\ index' = out.index
           /\ writer' = out.writer
    /\ call' = [call EXCEPT !.written = @ + 1]
    /\ UNCHANGED <<ttl, now, ticks, runs, ttlFile, pc, batch, prev, results, extra>>

\* line 144: writer.commit()
Commit ==
    /\ pc = "writing"
    /\ call.written = Len(batch)
    /\ index' = CommitIndex(index, writer)
    /\ writer' = NoWriter
    /\ pc' = "query"
    /\ call' = [call EXCEPT !.commits = @ + 1]
    /\ UNCHANGED <<ttl, now, ticks, runs, ttlFile, batch, prev, results, extra>>

\* the writer, a document write or the commit raises: the run ends, nothing committed
WriteFails ==
    /\ pc \in {"writer", "writing"}
    /\ writer' = NoWriter
    /\ pc' = "idle"
    /\ call' = [call EXCEPT !.failed = TRUE]
    /\ UNCHANGED <<ttl, now, ticks, runs, ttlFile, index, batch, prev, results, extra>>

\* a search reads the committed index: the run's own (line 238), or that of
\* another invocation whose gate is not due while this run's writer is open
SearchStep(term) ==
    /\ \/ pc = "query"
       \/ /\ pc \in {"writer", "writing"}
          /\ ~ShouldIndex(ttlFile, now, ttl).raised
          /\ ~ShouldIndex(ttlFile, now, ttl).ret
    /\ results' = [term |-> term, during |-> pc, written |-> call.written, view |-> index,
                   hits |-> Search(index, term)]
    /\ pc' = IF pc = "query" THEN "idle" ELSE pc
    /\ UNCHANGED <<ttl, now, ticks, runs, ttlFile, index, batch, writer, call, prev, extra>>

\* line 236: an empty search term, the run ends without a search
NoSearch ==
    /\ pc = "query"
    /\ pc' = "idle"
    /\ UNCHANGED <<ttl, now, ticks, runs, ttlFile, index, batch, writer, call, prev, results, extra>>

Next ==
    \/ \E d \in Steps : Tick(d)
    \/ \E instances \in Batches : UpdateIndexGate(instances)
    \/ OpenWriter
    \/ UpdateDocumentStep
    \/ Commit
    \/ WriteFails
    \/ \E term \in RunQueries : SearchStep(term)
    \/ NoSearch

Spec == Init /\ [][Next]_vars

(***************************************************************************)
(* Query specification: search applied to committed indexes of 0..MaxDocs  *)
(* hosts, after an update_index that returned.                             *)
(***************************************************************************)
InitSearch ==
    /\ ttl = 2
    /\ now = 0
    /\ ticks = 0
    /\ runs = 0
    /\ ttlFile = Stamp(0)
    /\ index \in {Corpus(n, p) : n \in 0..MaxDocs, p \in 0..MaxPattern}
    /\ pc = "query"
    /\ batch = <<>>
    /\ writer = NoWriter
    /\ call = NoCall
    /\ prev = NoPrev
    /\ results = NoResults
    /\ dir = "index"
    /\ flow = NoFlow
    /\ procs = <<>>

NextSearch == \E term \in Queries : SearchStep(term)

SpecSearch == InitSearch /\ [][NextSearch]_vars

(***************************************************************************)
(* Record source: AwsProvider.lookup.                                      *)
(***************************************************************************)
\* response['Reservations'][..]['Instances'] in one sequence, in loop order
RECURSIVE Flatten(_)
Flatten(reservations) ==
    IF reservations = <<>> THEN <<>> ELSE Head(reservations) \o Flatten(Tail(reservations))

\* the values of an instance's tags, in order
TagValues(tags) == [i \in 1..Len(tags) |-> tags[i].Value]

\* lines 200-203: the value of the last tag whose key is Name, else ''
RECURSIVE InstanceName(_)
InstanceName(tags) ==
    IF tags = <<>> THEN <<>>
    ELSE IF tags[Len(tags)].Key = "Name" THEN tags[Len(tags)].Value
    ELSE InstanceName(SubSeq(tags, 1, Len(tags) - 1))

\* lines 198-211: the loop; instance_fields is the one list made on line 189,
\* every ServerInstance is handed a reference to it
RECURSIVE LookupLoop(_, _, _)
LookupLoop(insts, instance_fields, instances) ==
    IF insts = <<>> THEN [instances |-> instances, instance_fields |-> instance_fields]
    ELSE LookupLoop(Tail(insts),
                    instance_fields \o TagValues(Head(insts).Tags),
                    Append(instances, [server_name |-> InstanceName(Head(insts).Tags),
                                       server_ip_address |-> Head(insts).address]))

\* lookup(): the instances returned, their fields read through the shared list
Lookup(response) ==
    LET out == LookupLoop(Flatten(response), <<>>, <<>>)
    IN  [i \in 1..Len(out.instances) |->
            ServerInstance(out.instances[i].server_name,
                           out.instances[i].server_ip_address,
                           out.instance_fields)]

\* an EC2 instance of a describe_instances response
Ec2Instance(tags, address) == [Tags |-> tags, address |-> address]

Ec2Web == Ec2Instance(<<[Key |-> "Name", Value |-> NameWeb1], [Key |-> "env", Value |-> TagProd]>>, IP(1))
Ec2Db == Ec2Instance(<<[Key |-> "env", Value |-> TagDev], [Key |-> "Name", Value |-> NameDb1]>>, IP(2))
Ec2Bare == Ec2Instance(<<[Key |-> "role", Value |-> TagDb]>>, IP(3))

\* describe_instances responses: none, one instance, two in one reservation,
\* three over two reservations, one without a Name tag
Responses ==
    {<<>>, <<<<Ec2Web>>>>, <<<<Ec2Web, Ec2Db>>>>, <<<<Ec2Web>>, <<Ec2Db, Ec2Bare>>>>, <<<<Ec2Bare>>>>}

(***************************************************************************)
(* Selector: the display lines and the address taken from the chosen one.  *)
(***************************************************************************)
\* str.ljust(width)
LJust(s, width) ==
    IF Len(s) >= width THEN s ELSE s \o [i \in 1..(width - Len(s)) |-> " "]

\* str.strip() for blanks
RECURSIVE Strip(_)
Strip(s) ==
    IF s = <<>> THEN <<>>
    ELSE IF Head(s) = " " THEN Strip(Tail(s))
    ELSE IF s[Len(s)] = " " THEN Strip(SubSeq(s, 1, Len(s) - 1))
    ELSE s

\* "%02d" of a number below 100
TwoDigits(n) == <<DigitChar(n \div 10), DigitChar(n % 10)>>

\* created_at.strftime("%H:%M:%S")
TimeOfDay(t) ==
    TwoDigits((t % Day) \div 3600) \o <<":">> \o TwoDigits(((t % Day) % 3600) \div 60)
        \o <<":">> \o TwoDigits((t % Day) % 60)

\* lines 246-250 with "{0}|{1}|{2}" as the format
FormatChoiceTight(doc) ==
    Strip(LJust(doc.private_ip_address, 15) \o <<"|">> \o LJust(doc.name, 40) \o <<"|">>
              \o TimeOfDay(doc.created_at))

\* lines 246-250: "{0} | {1} | {2}".format(...).strip()
FormatChoice(doc) ==
    Strip(LJust(doc.private_ip_address, 15) \o <<" ", "|", " ">> \o LJust(doc.name, 40)
              \o <<" ", "|", " ">> \o TimeOfDay(doc.created_at))

\* line 263: answers['ip_address'].split(' ')[0]
FirstField(line) ==
    IF \E i \in 1..Len(line) : line[i] = " "
    THEN SubSeq(line, 1, (CHOOSE i \in 1..Len(line) :
                             line[i] = " " /\ \A j \in 1..(i - 1) : line[j] # " ") - 1)
    ELSE line

(***************************************************************************)
(* Main flow, lines 217-266: lookup, IndexProcessor(...), update_index,    *)
(* then the search term, the search, the selection and ssh.                *)
(*   flow.stage  none, lookup, open (get_index to run), creating (mkdir    *)
(*               done), ready (processor constructed), over                *)
(*   flow.n      the number the run's update_index call has in `runs`      *)
(***************************************************************************)
\* the order of the stages as it would be with the processor constructed first
FlowOrderOpenFirst == <<"open", "lookup", "ready">>

\* lines 222-226: the lookups, then IndexProcessor(...), then update_index
FlowOrder == <<"lookup", "open", "ready">>

\* the stage that follows stage st
NextStage(st) == FlowOrder[(CHOOSE i \in 1..Len(FlowOrder) : FlowOrder[i] = st) + 1]

\* get_index: create in a missing directory, else open what is there
GetIndex(d) ==
    IF d = "missing" THEN "create_in"
    ELSE IF d = "index" THEN "open_dir"
    ELSE "EmptyIndexError"

\* no run is in progress
RunEnded ==
    \/ flow.stage \in {"none", "over"}
    \/ flow.stage = "ready" /\ runs = flow.n /\ pc = "idle"

\* the program is started
StartRun ==
    /\ RunEnded
    /\ pc = "idle"
    /\ runs < MaxRuns
    /\ flow' = [NoFlow EXCEPT !.stage = FlowOrder[1], !.n = runs + 1,
                              !.start = [ttlFile |-> ttlFile, index |-> index, dir |-> dir]]
    /\ UNCHANGED <<ttl, now, ticks, runs, ttlFile, index, pc, batch, writer, call, prev,
                   results, dir, procs>>

\* lines 222-223: provider.lookup() returns
LookupReturns(response) ==
    /\ flow.stage = "lookup"
    /\ flow' = [flow EXCEPT !.response = response, !.instances = Lookup(response),
                            !.lookups = @ + 1, !.stage = NextStage("lookup")]
    /\ UNCHANGED <<ttl, now, ticks, runs, ttlFile, index, pc, batch, writer, call, prev,
                   results, dir, procs>>

\* line 223: provider.lookup() raises; nothing catches it, the run is over
LookupFails ==
    /\ flow.stage = "lookup"
    /\ flow' = [flow EXCEPT !.lookups = @ + 1, !.error = "DiscoveryError", !.stage = "over"]
    /\ UNCHANGED <<ttl, now, ticks, runs, ttlFile, index, pc, batch, writer, call, prev,
                   results, dir, procs>>

\* lines 117-118: the directory is missing, os.mkdir
GetIndexMkdir ==
    /\ flow.stage = "open"
    /\ GetIndex(dir) = "create_in"
    /\ dir' = "bare"
    /\ flow' = [flow EXCEPT !.stage = "creating"]
    /\ UNCHANGED <<ttl, now, ticks, runs, ttlFile, index, pc, batch, writer, call, prev,
                   results, procs>>

\* line 119: index.create_in, an empty index in the directory
GetIndexCreate ==
    /\ flow.stage = "creating"
    /\ dir' = "index"
    /\ index' = <<>>
    /\ flow' = [flow EXCEPT !.stage = NextStage("open")]
    /\ UNCHANGED <<ttl, now, ticks, runs, ttlFile, pc, batch, writer, call, prev,
                   results, procs>>

\* the run is killed, or create_in raises, between lines 118 and 119
GetIndexInterrupted ==
    /\ flow.stage = "creating"
    /\ flow' = [flow EXCEPT !.error = "Interrupted", !.stage = "over"]
    /\ UNCHANGED <<ttl, now, ticks, runs, ttlFile, index, pc, batch, writer, call, prev,
                   results, dir, procs>>

\* lines 121-122: the directory exists, index.open_dir
GetIndexOpen ==
    /\ flow.stage = "open"
    /\ GetIndex(dir) # "create_in"
    /\ flow' = IF GetIndex(dir) = "open_dir"
               THEN [flow EXCEPT !.stage = NextStage("open")]
               ELSE [flow EXCEPT !.error = GetIndex(dir), !.stage = "over"]
    /\ UNCHANGED <<ttl, now, ticks, runs, ttlFile, index, pc, batch, writer, call, prev,
                   results, dir, procs>>

\* line 226: processor.update_index(server_instances)
RunUpdateIndex ==
    /\ flow.stage = "ready"
    /\ runs < flow.n
    /\ UpdateIndexGate(flow.instances)

\* where the search term comes from: the arguments (line 229) or input()
\* (line 232), which returns text or raises
TermSources ==
    {[kind |-> "argv", args |-> <<<<>>>>, outcome |-> "text"],
     [kind |-> "argv", args |-> <<<<" ">>>>, outcome |-> "text"],
     [kind |-> "argv", args |-> <<TagProd>>, outcome |-> "text"],
     [kind |-> "argv", args |-> <<TagProd, TagDb>>, outcome |-> "text"],
     [kind |-> "prompt", args |-> <<<<>>>>, outcome |-> "text"],
     [kind |-> "prompt", args |-> <<TagWeb>>, outcome |-> "text"],
     [kind |-> "prompt", args |-> <<>>, outcome |-> "TypeError"],
     [kind |-> "prompt", args |-> <<>>, outcome |-> "EOFError"]}

\* lines 228-234: search_term; a TypeError from input() is swallowed and
\* leaves None, any other exception ends the run
TermOf(source) ==
    IF source.outcome = "text"
    THEN [given |-> TRUE, text |-> Join(<<" ">>, source.args)]
    ELSE NoTerm

\* lines 228-266 for a term source and the line the user picks (0: none, the
\* prompt is aborted)
TailOutcome(idx, source, answer) ==
    LET term == TermOf(source)
        hits == Search(idx, term.text)
        choices == [i \in 1..Len(hits) |-> FormatChoice(hits[i].doc)]
        quiet == [term |-> term, error |-> "none", searched |-> FALSE, hits |-> <<>>,
                  choices |-> <<>>, selecting |-> FALSE, token |-> <<>>, ssh |-> FALSE]
    IN  IF source.outcome \notin {"text", "TypeError"}
        THEN [quiet EXCEPT !.error = source.outcome]
        ELSE IF ~term.given
        THEN [quiet EXCEPT !.error = "TypeError"]
        ELSE IF Len(term.text) = 0
        THEN quiet
        ELSE IF Len(hits) = 0
        THEN [quiet EXCEPT !.searched = TRUE]
        ELSE IF answer \notin 1..Len(choices)
        THEN [quiet EXCEPT !.searched = TRUE, !.hits = hits, !.choices = choices,
                           !.selecting = TRUE]
        ELSE [quiet EXCEPT !.searched = TRUE, !.hits = hits, !.choices = choices,
                           !.selecting = TRUE, !.token = FirstField(choices[answer]),
                           !.ssh = TRUE]

\* lines 228-266: the rest of the run after update_index returned
QueryTail(source, answer) ==
    /\ pc = "query"
    /\ flow.stage = "ready"
    /\ runs = flow.n
    /\ LET o == TailOutcome(index, source, answer)
       IN  /\ answer <= Len(o.choices)
           /\ results' = IF o.searched
                         THEN [term |-> o.term.text, during |-> pc, written |-> call.written,
                               view |-> index, hits |-> o.hits]
                         ELSE results
           /\ flow' = [flow EXCEPT !.stage = "over", !.finished = TRUE, !.term = o.term,
                                   !.error = o.error, !.searched = o.searched,
                                   !.choices = o.choices, !.selecting = o.selecting,
                                   !.answer = IF o.ssh THEN answer ELSE 0,
                                   !.token = o.token, !.ssh = o.ssh]
    /\ pc' = "idle"
    /\ UNCHANGED <<ttl, now, ticks, runs, ttlFile, index, batch, writer, call, prev, dir, procs>>

\* the whole program, from an installation that has never run; the clock moves
\* a second at a time between runs
InitRun ==
    /\ ttl \in {0, 2}
    /\ now = 0
    /\ ticks = 0
    /\ runs = 0
    /\ ttlFile = NoFile
    /\ index = <<>>
    /\ pc = "idle"
    /\ batch = <<>>
    /\ writer = NoWriter
    /\ call = NoCall
    /\ prev = NoPrev
    /\ results = NoResults
    /\ dir = "missing"
    /\ flow = NoFlow
    /\ procs = <<>>

NextRun ==
    \/ RunEnded /\ ticks = 0 /\ Tick(1)
    \/ StartRun
    \/ \E response \in Responses : LookupReturns(response)
    \/ LookupFails
    \/ GetIndexMkdir
    \/ GetIndexCreate
    \/ GetIndexInterrupted
    \/ GetIndexOpen
    \/ RunUpdateIndex
    \/ OpenWriter
    \/ UpdateDocumentStep
    \/ Commit
    \/ WriteFails
    \/ \E source \in TermSources : \E answer \in 0..Len(index) : QueryTail(source, answer)

SpecRun == InitRun /\ [][NextRun]_vars

(***************************************************************************)
(* Selection specification: lines 228-266 applied to committed indexes of  *)
(* one or three hosts whose addresses are 8, 15 and 21 characters long or  *)
(* empty (an instance without a value in the address field).               *)
(***************************************************************************)
AddrShort == IP(1)
AddrFifteen == <<"1", "0", "0", ".", "1", "0", "0", ".", "1", "0", "0", ".", "1", "0", "0">>
AddrLong == IP(1) \o <<".", "e", "c", "2", ".", "i", "n", "t", "e", "r", "n", "a", "l">>
AddrNone == <<>>
SelectAddresses == {AddrShort, AddrFifteen, AddrLong, AddrNone}

\* names: plain, empty, with a blank, longer than the 40 columns of the line
NameSpaced == <<"w", "e", "b", " ", "1">>
NameWide == [i \in 1..41 |-> "a"]
SelectNames == {NameWeb1, <<>>, NameSpaced, NameWide}

\* created_at values: midnight, 01:01:01, 23:59:59
SelectTimes == {0, 3661, Day - 1}

SelectDoc(address, name, t) == Document(ServerInstance(name, address, <<TagProd>>), t)

SelectIndexes ==
    {<<SelectDoc(a, n, t)>> : a \in SelectAddresses, n \in SelectNames, t \in SelectTimes}
    \cup {<<SelectDoc(abc[1], nt[1], nt[2]), SelectDoc(abc[2], NameDb1, nt[2]),
            SelectDoc(abc[3], NameWeb1, 0)>> :
              abc \in {x \in SelectAddresses \X SelectAddresses \X SelectAddresses :
                          x[1] # x[2] /\ x[1] # x[3] /\ x[2] # x[3]},
              nt \in SelectNames \X SelectTimes}

InitSelect ==
    /\ ttl = 2
    /\ now = 0
    /\ ticks = 0
    /\ runs = 0
    /\ ttlFile = Stamp(0)
    /\ index \in SelectIndexes
    /\ pc = "query"
    /\ batch = <<>>
    /\ writer = NoWriter
    /\ call = NoCall
    /\ prev = NoPrev
    /\ results = NoResults
    /\ dir = "index"
    /\ flow = [NoFlow EXCEPT !.stage = "ready"]
    /\ procs = <<>>

NextSelect ==
    \E source \in TermSources : \E answer \in 0..Len(index) : QueryTail(source, answer)

SpecSelect == InitSelect /\ [][NextSelect]_vars

(***************************************************************************)
(* Concurrent invocations: should_index of several processes interleaved   *)
(* on one TTL file, a step per file operation.                             *)
(*   procs[p].pc  the line the process is about to run: l91 the check,     *)
(*                l93 and l107 an open for writing, l95 and l108 a dump,   *)
(*                l97 the load, done                                       *)
(*   saw          the file content the load found; opens the number of     *)
(*                opens for writing; alone: no dump since the last of them *)
(***************************************************************************)
\* the processes started together
Procs == {1, 2, 3}

NoProc ==
    [pc |-> "l91", loaded |-> FALSE, saw |-> NoFile, ret |-> FALSE, raised |-> FALSE,
     opens |-> 0, alone |-> FALSE]

\* open(..., 'wb') as it would be if the old bytes stayed until the dump
OpenForWriteKeep(file) == IF file.kind = "absent" THEN EmptyFile ELSE file

\* lines 93 and 107, open(self.index_ttl_file, 'wb'): the file exists and has no bytes
OpenForWrite(file) == EmptyFile

\* line 91: the file is missing or empty, or not
RaceCheck(p) ==
    /\ procs[p].pc = "l91"
    /\ procs' = [procs EXCEPT ![p].pc = IF ttlFile.kind \in {"absent", "empty"}
                                       THEN "l93" ELSE "l97"]
    /\ UNCHANGED <<ttl, now, ticks, runs, ttlFile, index, pc, batch, writer, call, prev,
                   results, dir, flow>>

\* lines 93 and 107: the file is opened for writing
RaceOpenWrite(p) ==
    /\ procs[p].pc \in {"l93", "l107"}
    /\ ttlFile' = OpenForWrite(ttlFile)
    /\ procs' = [procs EXCEPT ![p].pc = IF procs[p].pc = "l93" THEN "l95" ELSE "l108",
                              ![p].opens = @ + 1,
                              ![p].alone = TRUE]
    /\ UNCHANGED <<ttl, now, ticks, runs, index, pc, batch, writer, call, prev,
                   results, dir, flow>>

\* lines 94-95 and 108: pickle.dump and the close, the sentinel or the time
RaceDump(p) ==
    /\ procs[p].pc \in {"l95", "l108"}
    /\ ttlFile' = IF procs[p].pc = "l95" THEN Stamp(now - (ttl + 1)) ELSE Stamp(now)
    /\ procs' = [q \in Procs |->
                    IF q = p
                    THEN [procs[p] EXCEPT !.pc = IF procs[p].pc = "l95" THEN "l97" ELSE "done",
                                          !.alone = FALSE]
                    ELSE [procs[q] EXCEPT !.alone = FALSE]]
    /\ UNCHANGED <<ttl, now, ticks, runs, index, pc, batch, writer, call, prev,
                   results, dir, flow>>

\* lines 97-102: pickle.load, which raises unless it finds a pickle, and the decision
RaceLoad(p) ==
    /\ procs[p].pc = "l97"
    /\ procs' = IF ttlFile.kind # "stamp"
                THEN [procs EXCEPT ![p].pc = "done", ![p].loaded = TRUE, ![p].saw = ttlFile,
                                   ![p].raised = TRUE]
                ELSE [procs EXCEPT ![p].pc = IF ShouldIndex(ttlFile, now, ttl).ret
                                             THEN "l107" ELSE "done",
                                   ![p].loaded = TRUE, ![p].saw = ttlFile,
                                   ![p].ret = ShouldIndex(ttlFile, now, ttl).ret]
    /\ UNCHANGED <<ttl, now, ticks, runs, ttlFile, index, pc, batch, writer, call, prev,
                   results, dir, flow>>

\* the file is missing, empty, three seconds old or just written; ttl is 2
InitRace ==
    /\ ttl = 2
    /\ now = 0
    /\ ticks = 0
    /\ runs = 0
    /\ ttlFile \in {NoFile, EmptyFile, Stamp(-3), Stamp(0)}
    /\ index = <<>>
    /\ pc = "idle"
    /\ batch = <<>>
    /\ writer = NoWriter
    /\ call = NoCall
    /\ prev = NoPrev
    /\ results = NoResults
    /\ dir = "index"
    /\ flow = NoFlow
    /\ procs = [p \in Procs |-> NoProc]

NextRace ==
    \E p \in Procs :
        \/ RaceCheck(p)
        \/ RaceOpenWrite(p)
        \/ RaceDump(p)
        \/ RaceLoad(p)

SpecRace == InitRace /\ [][NextRace]_vars

(***************************************************************************)
(* Properties.                                                             *)
(***************************************************************************)
\* the latest update_index call has got past construction of a run
Called == call.op = "update_index"

\* seconds between the timestamp the gate loaded and the time of the call
Elapsed == call.at - call.read

\* the documents of idx stored under an address
DocsOf(idx, address) == {d \in 1..Len(idx) : idx[d].private_ip_address = address}

\* the last instance of the batch with the address of instance i
LatestOf(i) ==
    batch[CHOOSE j \in 1..Len(batch) :
            /\ batch[j].ip_address = batch[i].ip_address
            /\ \A k \in 1..Len(batch) : batch[k].ip_address = batch[i].ip_address => k <= j]

\* name a sorts no later than name b in byte order
NameNotAfter(a, b) ==
    \/ a = b
    \/ \E k \in 1..(Len(b)) :
          /\ \A j \in 1..(k - 1) : j <= Len(a) /\ a[j] = b[j]
          /\ \/ Len(a) < k
             \/ Len(a) >= k /\ Code(a[k]) < Code(b[k])

\* C1: with the TTL file missing or empty, the first should_index returns true
\* for every configured ttl and leaves the time of the call in the file.
C1_FirstRunBootstrap ==
    (Called /\ call.fileBefore.kind \in {"absent", "empty"})
        => (call.ret /\ ttlFile = Stamp(call.at))

\* C2: a call made less than ttl seconds after the persisted last_refresh_at
\* returns false, leaves the file as it was and writes nothing to the index.
C2_TtlSuppression ==
    (/\ Called
     /\ call.fileBefore.kind = "stamp"
     /\ 0 <= call.at - call.fileBefore.at
     /\ call.at - call.fileBefore.at < ttl)
        => (/\ ~call.raised
            /\ ~call.ret
            /\ ttlFile = call.fileBefore
            /\ ~call.opened /\ call.written = 0 /\ call.commits = 0
            /\ index = call.indexBefore)

\* a suppressed call after a due one that committed documents
C2_Witness ==
    /\ Called
    /\ call.fileBefore.kind = "stamp"
    /\ call.at - call.fileBefore.at = 1
    /\ ttl = 2
    /\ ~call.ret
    /\ index # <<>>

\* C3: once a batch is committed, every address of the batch has exactly one
\* document, carrying the name and tags of the latest instance written for it.
C3_UpsertReplace ==
    (Called /\ call.commits = 1)
        => \A i \in 1..Len(batch) :
              /\ Cardinality(DocsOf(index, batch[i].ip_address)) = 1
              /\ \A d \in DocsOf(index, batch[i].ip_address) :
                    /\ index[d].name = LatestOf(i).name
                    /\ index[d].tags = Join(<<" ">>, LatestOf(i).fields)

\* C4: every update_index call runs the gate once, and a call whose gate
\* returned false opens no writer, writes and commits nothing, index unchanged.
C4_GatedNoop ==
    /\ Called => call.gateCalls = 1
    /\ (Called /\ ~call.raised /\ ~call.ret)
          => (/\ ~call.opened /\ call.written = 0 /\ call.commits = 0
              /\ writer = NoWriter
              /\ index = call.indexBefore)

\* a not-due call that found documents in the index and had a batch to write
C4_Witness ==
    /\ Called /\ ~call.raised /\ ~call.ret
    /\ index # <<>>
    /\ batch # <<>>
    /\ pc = "query"

\* C5: in a due call the file holds the time of the call before the writer is
\* opened and after a failed write; the next call within ttl seconds of a
\* failed one is not due and the index still has its content from before.
C5_OptimisticGate ==
    /\ pc \in {"writer", "writing"} => ttlFile = Stamp(call.at)
    /\ call.failed => (ttlFile = Stamp(call.at) /\ index = call.indexBefore)
    /\ (Called /\ prev.failed /\ call.at - prev.at <= ttl)
          => (/\ ~call.raised /\ ~call.ret /\ ~call.opened
              /\ index = call.indexBefore
              /\ index = prev.indexBefore)

\* a call within ttl of a call that failed, with a batch that would change the index
C5_Witness ==
    /\ Called /\ prev.failed
    /\ call.at - prev.at <= ttl
    /\ call.at > prev.at
    /\ batch # <<>>
    /\ pc = "query"

\* C6: the gate returns true exactly when elapsed modulo 86400 exceeds ttl:
\* false at elapsed = ttl, false past 24h when the remainder is within ttl.
C6_GateFormula ==
    (Called /\ ~call.raised)
        => /\ call.ret <=> (Elapsed - Day * (Elapsed \div Day) > ttl)
           /\ Elapsed = ttl => ~call.ret
           /\ (Elapsed > Day /\ Elapsed - Day * (Elapsed \div Day) <= ttl) => ~call.ret

\* more than a day after a refresh that happened, the total beyond ttl, and not due
C6_Witness ==
    /\ Called /\ ~call.raised
    /\ call.fileBefore.kind = "stamp"
    /\ call.fileBefore.at >= 0
    /\ ttl = 2
    /\ Elapsed > Day
    /\ Elapsed > ttl
    /\ ~call.ret

\* C7: the committed index is the one from before the call while the writer is
\* open and after a failure; a search made meanwhile reads it; one commit makes
\* every instance of the batch visible, and nothing else changes the index.
C7_AtomicCommit ==
    /\ pc \in {"writer", "writing"} => index = call.indexBefore
    /\ call.failed => index = call.indexBefore
    /\ results.during \in {"writer", "writing"} => results.view = call.indexBefore
    /\ call.commits <= 1
    /\ call.commits = 1 =>
          \A i \in 1..Len(batch) :
             \E d \in 1..Len(index) :
                /\ index[d].private_ip_address = batch[i].ip_address
                /\ index[d].name = batch[i].name
                /\ index[d].tags = Join(<<" ">>, batch[i].fields)
    /\ index # call.indexBefore => (call.commits = 1 /\ call.written = Len(batch))

\* a search read the index while the writer held a document, then the batch
\* of two was committed over a non-empty index
C7_Witness ==
    /\ results.during = "writing"
    /\ results.written = 1
    /\ Len(batch) = 2
    /\ call.commits = 1
    /\ call.indexBefore # <<>>
    /\ index # call.indexBefore

\* C8: a TTL file that cannot be unpickled is treated as absent: no error, and
\* the decision is the one the stale sentinel gives.
C8_CorruptTolerated ==
    (Called /\ call.fileBefore.kind = "corrupt")
        => (/\ ~call.raised
            /\ call.ret <=> ((ttl + 1) % Day > ttl))

\* C9: the hits are in descending score order, equal scores in ascending name order.
C9_RankingOrder ==
    \A i \in 1..Len(results.hits) : \A j \in 1..Len(results.hits) :
        i < j =>
            /\ results.hits[i].score >= results.hits[j].score
            /\ results.hits[i].score = results.hits[j].score
                  => NameNotAfter(results.hits[i].doc.name, results.hits[j].doc.name)

\* hits with a score tie across different names and with different scores
C9_Witness ==
    /\ \E i \in 1..Len(results.hits) : \E j \in 1..Len(results.hits) :
          /\ i < j
          /\ results.hits[i].score = results.hits[j].score
          /\ results.hits[i].doc.name # results.hits[j].doc.name
          /\ results.hits[i].docnum > results.hits[j].docnum
    /\ \E i \in 1..Len(results.hits) : \E j \in 1..Len(results.hits) :
          results.hits[i].score > results.hits[j].score

\* the documents the search read that match its term
Matching == {d \in 1..Len(results.view) : Matches(results.view[d], QueryWords(results.term))}

\* the documents among the hits
Returned == {results.hits[i].docnum : i \in 1..Len(results.hits)}

\* C10: a search returns min(m, 15) of the m matching documents, each once, and
\* no document left out ranks before a returned one.
C10_ResultCap ==
    results.during # "none" =>
        /\ Len(results.hits) <= ResultLimit
        /\ Len(results.hits) = Min(Cardinality(Matching), ResultLimit)
        /\ Cardinality(Returned) = Len(results.hits)
        /\ Returned \subseteq Matching
        /\ \A d \in Matching \ Returned : \A i \in 1..Len(results.hits) :
              LET s == Score(results.view[d], QueryWords(results.term))
              IN  /\ s <= results.hits[i].score
                  /\ s = results.hits[i].score
                        => NameNotAfter(results.hits[i].doc.name, results.view[d].name)

\* more documents match than the cap, and the cap is what comes back
C10_Witness ==
    /\ Cardinality(Matching) > ResultLimit
    /\ Len(results.hits) = ResultLimit

\* C17: with ttl >= 86399 no should_index call returns true, whatever the file
\* holds, no update_index call opens a writer and the index stays empty.
C17_RefreshStarvation ==
    ttl >= Day - 1 =>
        /\ ~call.ret
        /\ ~call.opened /\ call.written = 0 /\ call.commits = 0
        /\ pc \notin {"writer", "writing"}
        /\ index = <<>>

\* a second call with instances to write, the loaded timestamp more than ttl
\* seconds old, and still not due
C17_Witness ==
    /\ ttl >= Day - 1
    /\ Called /\ ~call.raised
    /\ runs >= 2
    /\ Elapsed > ttl
    /\ batch # <<>>
    /\ pc = "query"
    /\ index = <<>>

\* the addresses that have a document in idx
AddressesOf(idx) == {idx[d].private_ip_address : d \in 1..Len(idx)}

\* the addresses of the instances handed to the latest update_index call
BatchAddresses == {batch[i].ip_address : i \in 1..Len(batch)}

\* C18: a call never removes the document of an address that is not in its
\* batch, the document count never decreases, and the indexed addresses are
\* those indexed before the call together with those of a committed batch.
C18_NoEviction ==
    Called =>
        /\ Len(index) >= Len(call.indexBefore)
        /\ AddressesOf(index) =
              AddressesOf(call.indexBefore) \cup (IF call.commits = 1 THEN BatchAddresses ELSE {})
        /\ \A d \in 1..Len(call.indexBefore) :
              call.indexBefore[d].private_ip_address \notin BatchAddresses
                  => \E e \in 1..Len(index) : index[e] = call.indexBefore[d]

\* a committed batch that no longer names a host indexed before
C18_Witness ==
    /\ Called /\ call.commits = 1
    /\ batch # <<>>
    /\ \E d \in 1..Len(call.indexBefore) :
          /\ call.indexBefore[d].private_ip_address \notin BatchAddresses
          /\ \E e \in 1..Len(index) : index[e] = call.indexBefore[d]

\* the run in progress has finished lines 228-266, by returning or by raising
TailDone == flow.finished /\ flow.stage = "over"

\* C11: a run whose search term is empty, blank or absent (the prompt gave no
\* term) ends without an error, without hits, without a selection and without
\* a connection.
C11_EmptyTerm ==
    (TailDone /\ Strip(flow.term.text) = <<>>) =>
        /\ flow.error = "none"
        /\ flow.choices = <<>>
        /\ ~flow.selecting
        /\ ~flow.ssh

\* C12: a run whose lookup failed has looked up once, has not constructed the
\* processor nor called update_index, and the timestamp file, the index
\* directory and the committed index are as they were when the run started.
C12_DiscoveryFailure ==
    flow.error = "DiscoveryError" =>
        /\ flow.stage = "over"
        /\ ~flow.finished
        /\ flow.lookups = 1
        /\ runs = flow.n - 1
        /\ pc = "idle"
        /\ ttlFile = flow.start.ttlFile
        /\ dir = flow.start.dir
        /\ index = flow.start.index

\* a lookup failure of a run that follows a run which refreshed the index
C12_Witness ==
    /\ flow.error = "DiscoveryError"
    /\ flow.n = 2
    /\ flow.start.index # <<>>
    /\ flow.start.ttlFile # NoFile
    /\ index = flow.start.index

\* C13: no run fails to open the index, a constructed processor has an index
\* in the directory, and opening leaves the committed documents as they were.
C13_IdempotentOpen ==
    /\ flow.error # "EmptyIndexError"
    /\ flow.stage = "ready" => dir = "index"
    /\ (flow.stage = "ready" /\ runs < flow.n) => index = flow.start.index

\* the instances of the response the run's lookup received
Described == Flatten(flow.response)

\* C16: the fields of the i-th record of a lookup are the tag values of the
\* i-th instance, and so is the tags text of the document committed for it.
C16_PerRecordTags ==
    /\ \A i \in 1..Len(flow.instances) :
          flow.instances[i].fields = TagValues(Described[i].Tags)
    /\ (flow.stage = "ready" /\ runs = flow.n /\ call.commits = 1) =>
          \A i \in 1..Len(flow.instances) :
              \E d \in DocsOf(index, flow.instances[i].ip_address) :
                  index[d].tags = Join(<<" ">>, TagValues(Described[i].Tags))

\* an address that is not empty and holds no blank
Plain(address) == address # <<>> /\ \A i \in 1..Len(address) : address[i] # " "

\* the address of the i-th hit of the latest search
HitAddress(i) == results.hits[i].doc.private_ip_address

\* C15: the first space-delimited field of the line built for a hit with a
\* plain address is that address, and the address handed to ssh is the
\* address of the hit whose line was picked.
C15_SelectorRoundTrip ==
    TailDone =>
        /\ \A i \in 1..Len(flow.choices) :
              Plain(HitAddress(i)) => FirstField(flow.choices[i]) = HitAddress(i)
        /\ (flow.ssh /\ Plain(HitAddress(flow.answer))) => flow.token = HitAddress(flow.answer)

\* lines for addresses of less than, exactly and more than 15 characters, and
\* the one of more than 15 picked and connected to
C15_Witness ==
    /\ TailDone /\ flow.ssh
    /\ Len(flow.choices) = 3
    /\ \E i \in 1..3 : Plain(HitAddress(i)) /\ Len(HitAddress(i)) < 15
    /\ \E i \in 1..3 : Len(HitAddress(i)) = 15
    /\ Len(HitAddress(flow.answer)) > 15
    /\ flow.token = AddrLong

\* process p has returned true from should_index
ReturnedTrue(p) == procs[p].pc = "done" /\ procs[p].ret

\* C14: a process decides from the timestamp it loaded alone, whatever the
\* others did with the file: true exactly when that timestamp is expired;
\* from an open for writing until the next dump the file is empty; and a load
\* raises exactly when it found no pickle, which takes another process's open.
C14_UncoordinatedRuns ==
    \A p \in Procs :
        /\ procs[p].loaded =>
              /\ procs[p].ret <=> /\ procs[p].saw.kind = "stamp"
                                  /\ TimeDelta(now, procs[p].saw.at).seconds > ttl
              /\ procs[p].raised <=> procs[p].saw.kind # "stamp"
        /\ ~procs[p].loaded => ~procs[p].ret /\ ~procs[p].raised
        /\ (procs[p].pc \in {"l95", "l108"} /\ procs[p].alone) => ttlFile = EmptyFile
        /\ procs[p].raised =>
              /\ procs[p].saw = EmptyFile
              /\ \E q \in Procs \ {p} : procs[q].opens > 0

\* two processes returned true for the same expired timestamp, and a third
\* found the file truncated
C14_Witness ==
    \E p, q, r \in Procs :
        /\ p # q
        /\ ReturnedTrue(p) /\ ReturnedTrue(q)
        /\ procs[p].saw = procs[q].saw
        /\ procs[p].saw = Stamp(-3)
        /\ procs[r].raised
        /\ procs[r].saw = EmptyFile

====
